---- MODULE Spec2Model ----
(***************************************************************************)
(* A model of the GoldsRS BSP reader: the version policies                 *)
(* (bsp/mapversions.rs), the checked constructor Bsp::new and the lump     *)
(* accessors (bsp/mod.rs), the tree navigator, Branch::traverse and the    *)
(* VisibilityIterator (bsp/quake1.rs).                                     *)
(*                                                                         *)
(* Each part of the reader has its own specification over the same         *)
(* variables; the variables a specification does not use keep their idle   *)
(* values.                                                                 *)
(*   SpecVersion  MapVersion::accepts_version applied to a version         *)
(*   Spec         Bsp::new on a buffer, then the lump accessors            *)
(*   SpecTree     the tree navigator and Branch::traverse on a map         *)
(*   SpecVis      Leaf::visible_leaves and VisibilityIterator::next        *)
(*   SpecDecode   Leaf::leaf_type and Bsp::plane on raw enum fields        *)
(*   SpecShared   two iterators, a traversal and navigator calls, their    *)
(*                steps interleaved over one map                           *)
(***************************************************************************)
EXTENDS Integers, Naturals, Sequences, FiniteSets, TLC

VARIABLES
    policy,      \* the MapVersion type parameter V
    version,     \* the u32 handed to accepts_version
    accepted,    \* <<>> before the call, <<b>> once accepts_version returned b
    buffer,      \* the byte buffer: [len, version, lumps], the header decoded
    pc,          \* position inside Bsp::new
    result,      \* what Bsp::new returned: [tag, version, name]
    reads,       \* the header fields Bsp::new has read so far
    slice,       \* outcome of the last slice_from_header call
    leaves,      \* Bsp::leaves(): the sys::Leaf records, leaf 0 first
    branches,    \* Bsp::branches(): the sys::Node records
    planes,      \* Bsp::planes(): the sys::Plane records
    vis_list,    \* Bsp::vislist(): the bytes of the vislist lump
    nav,         \* the last navigator call and what it returned
    node,        \* Branch::traverse: index of the branch `node` holds
    position,    \* Branch::traverse: the query point
    tpc,         \* Branch::traverse: "idle", "loop" or "done"
    steps,       \* Branch::traverse: loop iterations completed
    tret,        \* Branch::traverse: the value returned
    my_index,    \* Leaf::visible_leaves: vis_index of the leaf it is called on
    index,       \* VisibilityIterator::index
    all,         \* VisibilityIterator::all
    other_index, \* VisibilityIterator::other_index
    bit,         \* VisibilityIterator::bit, <<>> for None and <<b>> for Some(b)
    num_leaves,  \* VisibilityIterator::num_leaves
    ret,         \* the iterator: not made, inside next(), or what next() returned
    emitted,     \* the leaf indices next() has returned so far, in order
    peer         \* a second VisibilityIterator over the same Bsp, as a record

verVars == <<version, accepted>>
newVars == <<buffer, pc, result, reads, slice>>
mapVars == <<leaves, branches, planes, vis_list>>
navVars == <<nav, node, position, tpc, steps, tret>>
visVars == <<my_index, index, all, other_index, bit, num_leaves, ret, emitted, peer>>

vars == <<policy, verVars, newVars, mapVars, navVars, visVars>>

----------------------------------------------------------------------------
(* Machine integers.  TLC's integers are 32 bit, so i32 arithmetic is      *)
(* done with explicit range tests, never by computing an overflowing sum.  *)

MaxI32 == 2147483647
MinI32 == -MaxI32 - 1

NoneI32 == <<>>
SomeI32(x) == <<x>>

(* i32::checked_add: None when the exact sum leaves the i32 range. *)
checked_add(a, b) ==
    IF a >= 0 /\ b > MaxI32 - a THEN NoneI32
    ELSE IF a < 0 /\ b < MinI32 - a THEN NoneI32
    ELSE SomeI32(a + b)

(* `x as usize` for an i32 x: a non-negative x keeps its value; a negative *)
(* x sign-extends to 2^N + x (N the pointer width), which is above every   *)
(* buffer length.  Such a value is kept as "big", its digits dropped.      *)
as_usize(x) == IF x < 0 THEN [big |-> TRUE, v |-> 0] ELSE [big |-> FALSE, v |-> x]

(* u <= n for a usize u and a buffer length n. *)
usize_le(u, n) == ~u.big /\ u.v <= n

(* u / s for a usize u and an element size s (at most 64 bytes): a value of *)
(* 2^N + x divided by s is still above every buffer length.                *)
usize_div(u, s) == IF u.big THEN u ELSE [big |-> FALSE, v |-> u.v \div s]

(* usize::checked_add(a, b) <= n, the test of slice_ref's debug_assert. *)
usize_sum_le(a, b, n) == ~a.big /\ ~b.big /\ a.v + b.v <= n

----------------------------------------------------------------------------
(* Version policies, bsp/mapversions.rs *)

Quake1 == "Quake1"
Goldsrc == "Goldsrc"
Quake2 == "Quake2"
Policies == {Quake1, Goldsrc, Quake2}

Quake1MaxVersion == 29
GoldsrcVersion == 30
Quake2MaxVersion == 38
Quake2MinVersion == 29

Quake1_accepts_version(v) == v <= Quake1MaxVersion

Goldsrc_accepts_version(v) == v = GoldsrcVersion

Quake2_accepts_version_Mut(v) == v < Quake2MaxVersion /\ v > Quake2MinVersion
Quake2_accepts_version(v) == v <= Quake2MaxVersion /\ v > Quake2MinVersion

accepts_version(V, v) ==
    CASE V = Quake1 -> Quake1_accepts_version(v)
      [] V = Goldsrc -> Goldsrc_accepts_version(v)
      [] V = Quake2 -> Quake2_accepts_version(v)

----------------------------------------------------------------------------
(* The header, sys/bsp.rs: Header<(), Quake1Lump> is the u32 version and   *)
(* 15 entries of two i32 each.                                             *)

LumpNames ==
    << "entities", "planes", "miptex", "vertices", "vislist", "nodes",
       "texinfo", "faces", "lightmaps", "clipnodes", "leaves", "lfaces",
       "edges", "ledges", "models" >>

Lumps == 1..Len(LumpNames)

VersionSize == 4
EntrySize == 8

(* mem::size_of::<sys::Header<V::Magic, V::Lump>>() with V::Magic = () *)
HeaderSize == VersionSize + Len(LumpNames) * EntrySize

Entry(o, l) == [offset |-> o, len |-> l]

(* The policies Bsp<V> is implemented for: V::Lump = Quake1Lump. *)
BspPolicies == {Quake1, Goldsrc}

(* The lumps that have an accessor, with mem::size_of of their record. *)
ElemSize ==
    [n \in {"planes", "nodes", "leaves", "vislist", "faces", "edges",
            "vertices", "models", "lfaces", "ledges"} |->
        CASE n = "planes" -> 20
          [] n = "nodes" -> 24
          [] n = "leaves" -> 28
          [] n = "vislist" -> 1
          [] n = "faces" -> 24
          [] n = "edges" -> 4
          [] n = "vertices" -> 12
          [] n = "models" -> 64
          [] n = "lfaces" -> 2
          [] n = "ledges" -> 2]

LumpIndex(n) == CHOOSE i \in Lumps : LumpNames[i] = n

----------------------------------------------------------------------------
(* Results of Bsp::new, bsp/mod.rs Error *)

NoResult == [tag |-> "none", version |-> 0, name |-> ""]
Ok == [tag |-> "Ok", version |-> 0, name |-> ""]
HeaderCorrupted == [tag |-> "HeaderCorrupted", version |-> 0, name |-> ""]
VersionMismatch(v) == [tag |-> "VersionMismatch", version |-> v, name |-> ""]
EntryCorrupted(n) == [tag |-> "EntryCorrupted", version |-> 0, name |-> n]

NoSlice == [tag |-> "none", lump |-> "", start |-> 0, count |-> 0]

----------------------------------------------------------------------------
(* Bsp::new, bsp/mod.rs 86-131 *)

(* The size test of line 88. *)
TooShort_Mut(n) == n < VersionSize
TooShort(n) == n < HeaderSize

(* The test of lines 118-123 on one entry, for a buffer of n bytes:        *)
(* offset.checked_add(len).map(|end| (end as usize) <= n).unwrap_or(false) *)
EntryOk_Mut(e, n) ==
    LET end == checked_add(e.offset, e.len)
    IN  IF end = NoneI32 THEN FALSE ELSE end[1] <= n
EntryOk(e, n) ==
    LET end == checked_add(e.offset, e.len)
    IN  IF end = NoneI32 THEN FALSE ELSE usize_le(as_usize(end[1]), n)

(* The for loop of lines 99-127 from lump i on: the first entry that fails *)
(* the test ends the loop with its name.                                   *)
RECURSIVE CheckEntries(_, _, _)
CheckEntries(lumps, n, i) ==
    IF i > Len(LumpNames) THEN Ok
    ELSE IF ~EntryOk(lumps[i], n) THEN EntryCorrupted(LumpNames[i])
    ELSE CheckEntries(lumps, n, i + 1)

NewCheckLen ==
    /\ pc = "len"
    /\ IF TooShort(buffer.len)
       THEN /\ result' = HeaderCorrupted
            /\ pc' = "done"
       ELSE /\ result' = result
            /\ pc' = "version"
    /\ UNCHANGED <<policy, verVars, buffer, reads, slice, mapVars, navVars, visVars>>

NewCheckVersion_Mut ==
    /\ pc = "version"
    /\ reads' = reads \cup {"version"}
    /\ result' = result
    /\ pc' = "lumps"
    /\ UNCHANGED <<policy, verVars, buffer, slice, mapVars, navVars, visVars>>
NewCheckVersion ==
    /\ pc = "version"
    /\ reads' = reads \cup {"version"}
    /\ IF ~accepts_version(policy, buffer.version)
       THEN /\ result' = VersionMismatch(buffer.version)
            /\ pc' = "done"
       ELSE /\ result' = result
            /\ pc' = "lumps"
    /\ UNCHANGED <<policy, verVars, buffer, slice, mapVars, navVars, visVars>>

NewCheckLumps ==
    /\ pc = "lumps"
    /\ reads' = reads \cup {LumpNames[i] : i \in Lumps}
    /\ result' = CheckEntries(buffer.lumps, buffer.len, 1)
    /\ pc' = "done"
    /\ UNCHANGED <<policy, verVars, buffer, slice, mapVars, navVars, visVars>>

----------------------------------------------------------------------------
(* The lump accessors, bsp/mod.rs 133-202 *)

(* slice_from_header and slice_ref for the lump named n: the slice starts  *)
(* at `offset as usize` and holds (len as usize) / size_of::<T>() records. *)
(* With debug assertions slice_ref panics unless offset + count fits the   *)
(* buffer; without them slice::from_raw_parts is handed whatever range the *)
(* entry names, and a range outside the buffer is undefined behaviour.     *)
SliceOutcomes(n) ==
    LET e == buffer.lumps[LumpIndex(n)]
        offset == as_usize(e.offset)
        count == usize_div(as_usize(e.len), ElemSize[n])
    IN  IF usize_sum_le(offset, count, buffer.len)
        THEN {[tag |-> "Slice", lump |-> n, start |-> offset.v, count |-> count.v]}
        ELSE {[tag |-> "Panic", lump |-> n, start |-> 0, count |-> 0],
              [tag |-> "OutOfBounds", lump |-> n, start |-> 0, count |-> 0]}

SliceFromHeader ==
    /\ pc = "done"
    /\ result = Ok
    /\ \E n \in DOMAIN ElemSize : slice' \in SliceOutcomes(n)
    /\ UNCHANGED <<policy, verVars, buffer, pc, result, reads, mapVars, navVars, visVars>>

----------------------------------------------------------------------------
(* The values of the variables a specification does not use *)

VersionIdle == version = 0 /\ accepted = <<>>

NoNav == [op |-> "none", arg |-> 0, tag |-> "none", index |-> 0]
NoRet == [tag |-> "none", index |-> 0]

NoPeer == [my_index |-> 0, index |-> 0, all |-> FALSE, other_index |-> 0,
           bit |-> <<>>, num_leaves |-> 0, ret |-> NoRet, emitted |-> <<>>]

MapIdle == leaves = <<>> /\ branches = <<>> /\ planes = <<>> /\ vis_list = <<>>

NavIdle ==
    /\ nav = NoNav
    /\ node = 0
    /\ position = <<0, 0, 0>>
    /\ tpc = "idle"
    /\ steps = 0
    /\ tret = NoRet

VisIdle ==
    /\ my_index = 0
    /\ index = 0
    /\ all = FALSE
    /\ other_index = 0
    /\ bit = <<>>
    /\ num_leaves = 0
    /\ ret = NoRet
    /\ emitted = <<>>
    /\ peer = NoPeer

----------------------------------------------------------------------------
(* The buffers Bsp::new is run on *)

ExtraBytes == 8
MaxDirty == 2

DefaultEntry == Entry(0, 0)

(* Entries worth trying in a buffer of n bytes: the last byte range that   *)
(* fits, the first that does not, a negative offset or length with the end *)
(* inside the buffer, a negative end, a huge end, and both overflows.      *)
EntrySamples(n) ==
    { Entry(HeaderSize, n - HeaderSize), Entry(HeaderSize, n - HeaderSize + 1),
      Entry(-4, 8), Entry(8, -4), Entry(-1, 0), Entry(0, MaxI32),
      Entry(MaxI32, 1), Entry(MinI32, -1) }

DirtySets == {D \in SUBSET Lumps : Cardinality(D) <= MaxDirty}

NewVersions == {Quake1MaxVersion, GoldsrcVersion}

(* A lump table with the entries of D set by f, the others the default. *)
LumpTable(D, f) == [i \in Lumps |-> IF i \in D THEN f[i] ELSE DefaultEntry]

(* A buffer with room for ExtraBytes after the header, whose lump table    *)
(* has at most MaxDirty entries that are not the default.                  *)
FullBuffer(b) ==
    \E D \in DirtySets :
        \E f \in [D -> EntrySamples(HeaderSize + ExtraBytes)], v \in NewVersions :
            b = [len |-> HeaderSize + ExtraBytes, version |-> v,
                 lumps |-> LumpTable(D, f)]

(* A header and nothing else; and buffers too short for a header, where    *)
(* what lies behind the buffer is not its own.                             *)
ShortBuffer(b) ==
    \E n \in {0, HeaderSize - 1, HeaderSize}, v \in NewVersions,
       e \in {DefaultEntry, Entry(HeaderSize, 1)} :
        b = [len |-> n, version |-> v, lumps |-> LumpTable({1}, <<e>>)]

Init ==
    /\ policy \in BspPolicies
    /\ FullBuffer(buffer) \/ ShortBuffer(buffer)
    /\ pc = "len"
    /\ result = NoResult
    /\ reads = {}
    /\ slice = NoSlice
    /\ VersionIdle
    /\ MapIdle /\ NavIdle /\ VisIdle

Next == NewCheckLen \/ NewCheckVersion \/ NewCheckLumps \/ SliceFromHeader

Spec == Init /\ [][Next]_vars

----------------------------------------------------------------------------
(* accepts_version on its own *)

MaxVersion == 40

IdleBuffer == [len |-> 0, version |-> 0, lumps |-> LumpTable({}, <<>>)]

NewIdle ==
    /\ buffer = IdleBuffer
    /\ pc = "idle"
    /\ result = NoResult
    /\ reads = {}
    /\ slice = NoSlice

InitVersion ==
    /\ policy \in Policies
    /\ version \in 0..MaxVersion \cup {MaxI32}
    /\ accepted = <<>>
    /\ NewIdle
    /\ MapIdle /\ NavIdle /\ VisIdle

AcceptsVersion ==
    /\ accepted = <<>>
    /\ accepted' = <<accepts_version(policy, version)>>
    /\ UNCHANGED <<policy, version, newVars, mapVars, navVars, visVars>>

NextVersion == AcceptsVersion

SpecVersion == InitVersion /\ [][NextVersion]_vars

----------------------------------------------------------------------------
(* The tree navigator, bsp/mod.rs 204-238 and bsp/quake1.rs 115-126, 421-425 *)

INVALID == -2
ORDINARY == -1
U16Modulus == 65536
U8Modulus == 256
MaxPlaneType == 5

(* Record i of a lump slice, counted from 0 as in the source. *)
At(s, i) == s[i + 1]

NoneNode == [tag |-> "None", index |-> 0]
PanicNode == [tag |-> "Panic", index |-> 0]
LeafNode(i) == [tag |-> "Leaf", index |-> i]
BranchNode(i) == [tag |-> "Branch", index |-> i]

(* Leaf::is_invalid *)
is_invalid(l) == l.leaf_type = INVALID

(* Bsp::leaf: indexing the slice panics past its end. *)
leaf_Mut(i) ==
    IF i >= Len(leaves) THEN PanicNode ELSE LeafNode(i)
leaf(i) ==
    IF i >= Len(leaves) THEN PanicNode
    ELSE IF is_invalid(At(leaves, i)) THEN NoneNode
    ELSE LeafNode(i)

(* Bsp::branch *)
branch(i) ==
    IF i >= Len(branches) THEN PanicNode ELSE BranchNode(i)

(* `x as u16` *)
as_u16(x) == x % U16Modulus

(* Bsp::node for an id whose negation does not overflow. *)
node_of(id_with_flag) ==
    LET is_leaf == id_with_flag < 0
        id == as_u16(IF is_leaf THEN -id_with_flag - 1 ELSE id_with_flag)
    IN  IF is_leaf THEN leaf(id) ELSE branch(id)

(* Bsp::node.  -i32::MIN overflows: with overflow checks it panics, without *)
(* them it wraps to i32::MIN, the subtraction wraps to i32::MAX and the     *)
(* cast leaves 0xFFFF.                                                      *)
NodeOutcomes(id_with_flag) ==
    IF id_with_flag = MinI32
    THEN {PanicNode, leaf(as_u16(MaxI32))}
    ELSE {node_of(id_with_flag)}

(* From<sys::Plane> for Plane: the assert on `plane_type as u8`. *)
PlaneFrom(other) ==
    LET plane_type == other.plane_type % U8Modulus
    IN  IF plane_type <= MaxPlaneType /\ plane_type >= 0
        THEN [tag |-> "Plane", normal |-> other.normal, distance |-> other.dist,
              plane_type |-> plane_type]
        ELSE [tag |-> "Panic", normal |-> <<0, 0, 0>>, distance |-> 0, plane_type |-> 0]

(* Bsp::plane on `plane_id as usize` *)
plane(plane_id) ==
    IF plane_id < 0 \/ plane_id >= Len(planes)
    THEN [tag |-> "Panic", normal |-> <<0, 0, 0>>, distance |-> 0, plane_type |-> 0]
    ELSE PlaneFrom(At(planes, plane_id))

(* Branch::front and Branch::back: the i16 child id widened to i32. *)
front(b) == node_of(At(branches, b).front_id)
back(b) == node_of(At(branches, b).back_id)

Called(op, arg, out) == [op |-> op, arg |-> arg, tag |-> out.tag, index |-> out.index]

(* The ids handed to Bsp::node and held by Model::hulls[0]: the child ids, *)
(* ids that only differ from them above bit 15, and i32::MIN.              *)
ChildIds == -(Len(leaves) + 1) .. Len(branches)
NodeIds == ChildIds \cup {U16Modulus, -U16Modulus - 1, MinI32}

LeafCall ==
    /\ tpc = "idle" /\ nav = NoNav
    /\ \E i \in 0 .. Len(leaves) : nav' = Called("leaf", i, leaf(i))
    /\ UNCHANGED <<policy, verVars, newVars, mapVars, node, position, tpc, steps, tret, visVars>>

NodeCall ==
    /\ tpc = "idle" /\ nav = NoNav
    /\ \E id \in NodeIds : \E out \in NodeOutcomes(id) : nav' = Called("node", id, out)
    /\ UNCHANGED <<policy, verVars, newVars, mapVars, node, position, tpc, steps, tret, visVars>>

(* Model::root on a model whose hulls[0] is id *)
RootCall ==
    /\ tpc = "idle" /\ nav = NoNav
    /\ \E id \in NodeIds : \E out \in NodeOutcomes(id) : nav' = Called("root", id, out)
    /\ UNCHANGED <<policy, verVars, newVars, mapVars, node, position, tpc, steps, tret, visVars>>

FrontCall ==
    /\ tpc = "idle" /\ nav = NoNav
    /\ \E b \in 0 .. (Len(branches) - 1) : nav' = Called("front", b, front(b))
    /\ UNCHANGED <<policy, verVars, newVars, mapVars, node, position, tpc, steps, tret, visVars>>

BackCall ==
    /\ tpc = "idle" /\ nav = NoNav
    /\ \E b \in 0 .. (Len(branches) - 1) : nav' = Called("back", b, back(b))
    /\ UNCHANGED <<policy, verVars, newVars, mapVars, node, position, tpc, steps, tret, visVars>>

----------------------------------------------------------------------------
(* Branch::traverse, bsp/quake1.rs 147-178 *)

MaxSteps == 4

dot(a, b) == a[1] * b[1] + a[2] * b[2] + a[3] * b[3]

(* The query points tried; the f32 arithmetic on them is exact. *)
Positions == {<<1, 0, 0>>, <<1, 0, 2>>, <<0, 0, 0>>}

(* The child one iteration of the loop descends to: node.plane(), then     *)
(* node.front() or node.back().                                            *)
Descend_Mut(b, fpos) ==
    LET p == plane(At(branches, b).plane_id)
    IN  IF p.tag = "Panic" THEN PanicNode
        ELSE IF dot(p.normal, fpos) - p.distance > 0 THEN front(b) ELSE back(b)
Descend(b, fpos) ==
    LET p == plane(At(branches, b).plane_id)
    IN  IF p.tag = "Panic" THEN PanicNode
        ELSE IF dot(p.normal, fpos) - p.distance >= 0 THEN front(b) ELSE back(b)

TraverseStart ==
    /\ tpc = "idle" /\ nav = NoNav
    /\ \E b \in 0 .. (Len(branches) - 1), pos \in Positions :
        /\ node' = b
        /\ position' = pos
    /\ tpc' = "loop"
    /\ steps' = 0
    /\ UNCHANGED <<policy, verVars, newVars, mapVars, nav, tret, visVars>>

(* One iteration of the loop.  The source puts no bound on the iterations; *)
(* MaxSteps only stops the model from following a cycle for ever.          *)
TraverseStep ==
    /\ tpc = "loop"
    /\ steps < MaxSteps
    /\ steps' = steps + 1
    /\ LET o_out == Descend(node, position)
       IN  IF o_out.tag = "Branch"
           THEN /\ node' = o_out.index
                /\ UNCHANGED <<tpc, tret>>
           ELSE /\ tret' = o_out
                /\ tpc' = "done"
                /\ node' = node
    /\ UNCHANGED <<policy, verVars, newVars, mapVars, nav, position, visVars>>

----------------------------------------------------------------------------
(* The maps the navigator is run on *)

MaxBranches == 1
MaxTreeLeaves == 2

(* One plane, x - z = 0, so that plane id 1 is past the end of the lump. *)
TreePlanes == << [normal |-> <<1, 0, -1>>, dist |-> 0, plane_type |-> 3] >>

TreeLeafTypes == {ORDINARY, INVALID}

InitTree ==
    /\ \E nb \in 1 .. MaxBranches, nl \in 1 .. MaxTreeLeaves :
        /\ leaves \in [1 .. nl -> [leaf_type : TreeLeafTypes, vis_index : {-1}]]
        /\ branches \in [1 .. nb -> [plane_id : 0 .. Len(TreePlanes),
                                     front_id : -(nl + 1) .. nb,
                                     back_id : -(nl + 1) .. nb]]
    /\ planes = TreePlanes
    /\ vis_list = <<>>
    /\ NavIdle
    /\ policy = Quake1
    /\ VersionIdle /\ NewIdle /\ VisIdle

NextTree ==
    \/ LeafCall \/ NodeCall \/ RootCall \/ FrontCall \/ BackCall
    \/ TraverseStart \/ TraverseStep

SpecTree == InitTree /\ [][NextTree]_vars

----------------------------------------------------------------------------
(* Leaf::visible_leaves and VisibilityIterator::next, bsp/quake1.rs 34-94, *)
(* 196-212.  ret is "none" until the iterator is made, "ready" before the  *)
(* first call of next(), "running" inside the loop of next(), and "Some",  *)
(* "None" or "Panic" once a call has ended; the next call goes on from the *)
(* fields the last one left.                                               *)

BitsPerByte == 8
ByteStep == 2
FirstBit == 1
FirstOther == 1

Ready == [tag |-> "ready", index |-> 0]
Running == [tag |-> "running", index |-> 0]
SomeLeaf(i) == [tag |-> "Some", index |-> i]
NoneLeaf == [tag |-> "None", index |-> 0]
Panicked == [tag |-> "Panic", index |-> 0]

Live == ret.tag \notin {"none", "Panic"}

(* `mask = 2 << get(bit)` in u8: the bits shifted past bit 7 are lost. *)
RECURSIVE Pow2(_)
Pow2(n) == IF n = 0 THEN 1 ELSE 2 * Pow2(n - 1)
Mask(b) == (2 * Pow2(b)) % U8Modulus

(* byte & mask != 0 for a mask that is 0 or a power of two *)
BitSet(byte, mask) == mask # 0 /\ (byte \div mask) % 2 = 1

(* line 87: the leaf counter after a zero byte with skip count k *)
SkipTo_Mut(other, k) == other + k
SkipTo(other, k) == other + BitsPerByte * k

(* Leaf::visible_leaves on leaf l, a leaf Bsp::leaf has surfaced.  index   *)
(* is `my_index as u32`: for a negative my_index that is 2^32 + my_index,  *)
(* written here as my_index itself and never read while `all` holds.       *)
VisibleLeaves ==
    /\ ret.tag = "none"
    /\ \E l \in 0 .. (Len(leaves) - 1) :
        /\ leaf(l).tag = "Leaf"
        /\ my_index' = At(leaves, l).vis_index
    /\ num_leaves' = Len(leaves)
    /\ all' = (my_index' < 0)
    /\ index' = my_index'
    /\ other_index' = FirstOther
    /\ bit' = <<>>
    /\ ret' = Ready
    /\ UNCHANGED <<policy, verVars, newVars, mapVars, navVars, emitted, peer>>

(* lines 60-66 *)
NextAll ==
    /\ Live /\ all
    /\ LET out == leaf(other_index)
       IN  IF out.tag = "Panic"
           THEN /\ ret' = Panicked
                /\ UNCHANGED <<other_index, emitted>>
           ELSE /\ other_index' = other_index + 1
                /\ IF out.tag = "Leaf"
                   THEN /\ ret' = SomeLeaf(out.index)
                        /\ emitted' = Append(emitted, out.index)
                   ELSE /\ ret' = Running
                        /\ emitted' = emitted
    /\ UNCHANGED <<policy, verVars, newVars, mapVars, navVars, peer,
                   my_index, index, all, bit, num_leaves>>

(* lines 67-68 *)
NextEnd ==
    /\ Live /\ ~all
    /\ other_index > num_leaves
    /\ ret' = NoneLeaf
    /\ UNCHANGED <<policy, verVars, newVars, mapVars, navVars, peer,
                   my_index, index, all, other_index, bit, num_leaves, emitted>>

(* lines 69-72 *)
NextBitDone ==
    /\ Live /\ ~all
    /\ other_index <= num_leaves
    /\ bit # <<>> /\ bit[1] >= BitsPerByte
    /\ bit' = <<>>
    /\ index' = index + 1
    /\ ret' = Running
    /\ UNCHANGED <<policy, verVars, newVars, mapVars, navVars, peer,
                   my_index, all, other_index, num_leaves, emitted>>

(* lines 73-85: the leaf counter and the bit cursor move on, then the byte *)
(* is read and, when the masked bit is set, the leaf is resolved; expect   *)
(* panics on a leaf Bsp::leaf does not surface.                            *)
NextBit ==
    /\ Live /\ ~all
    /\ other_index <= num_leaves
    /\ bit # <<>> /\ bit[1] < BitsPerByte
    /\ other_index' = other_index + 1
    /\ bit' = <<bit[1] + 1>>
    /\ IF index >= Len(vis_list)
       THEN ret' = Panicked /\ emitted' = emitted
       ELSE IF BitSet(At(vis_list, index), Mask(bit[1]))
            THEN IF leaf(other_index).tag = "Leaf"
                 THEN /\ ret' = SomeLeaf(other_index)
                      /\ emitted' = Append(emitted, other_index)
                 ELSE ret' = Panicked /\ emitted' = emitted
            ELSE ret' = Running /\ emitted' = emitted
    /\ UNCHANGED <<policy, verVars, newVars, mapVars, navVars, peer,
                   my_index, index, all, num_leaves>>

(* line 86 with the cursor past the vislist: the indexing panics *)
NextByteOverrun ==
    /\ Live /\ ~all
    /\ other_index <= num_leaves
    /\ bit = <<>>
    /\ index >= Len(vis_list)
    /\ ret' = Panicked
    /\ UNCHANGED <<policy, verVars, newVars, mapVars, navVars, peer,
                   my_index, index, all, other_index, bit, num_leaves, emitted>>

(* lines 86-88 *)
NextZero ==
    /\ Live /\ ~all
    /\ other_index <= num_leaves
    /\ bit = <<>>
    /\ index < Len(vis_list)
    /\ At(vis_list, index) = 0
    /\ IF index + 1 >= Len(vis_list)
       THEN /\ ret' = Panicked
            /\ UNCHANGED <<index, other_index>>
       ELSE /\ other_index' = SkipTo(other_index, At(vis_list, index + 1))
            /\ index' = index + ByteStep
            /\ ret' = Running
    /\ UNCHANGED <<policy, verVars, newVars, mapVars, navVars, peer,
                   my_index, all, bit, num_leaves, emitted>>

(* lines 89-91 *)
NextNonzero ==
    /\ Live /\ ~all
    /\ other_index <= num_leaves
    /\ bit = <<>>
    /\ index < Len(vis_list)
    /\ At(vis_list, index) # 0
    /\ bit' = <<FirstBit>>
    /\ ret' = Running
    /\ UNCHANGED <<policy, verVars, newVars, mapVars, navVars, peer,
                   my_index, index, all, other_index, num_leaves, emitted>>

----------------------------------------------------------------------------
(* The maps the iterator is run on *)

MaxVisLeaves == 10
MaxVisLen == 3

(* Bytes: the zero marker, a skip count of one, a byte whose only tested   *)
(* bit is the first, and a byte with every bit set.                        *)
ByteSamples == {0, 1, 4, 255}

(* The leaves that may be Invalid: leaf 0, the first leaf a byte tests and *)
(* the first leaf tested after a skip of one.                              *)
InvalidCandidates == {0, FirstOther, FirstOther + BitsPerByte}

(* vis_index of the one leaf that points into the vislist *)
VisStarts == {0, 1}

InitVis ==
    /\ \E nl \in 1 .. MaxVisLeaves, inv \in SUBSET InvalidCandidates,
          l0 \in 0 .. (MaxVisLeaves - 1), start \in VisStarts :
        /\ l0 < nl
        /\ l0 \notin inv
        /\ \A l \in 0 .. (l0 - 1) : l \in inv
        /\ leaves = [i \in 1 .. nl |->
                        [leaf_type |-> IF (i - 1) \in inv THEN INVALID ELSE ORDINARY,
                         vis_index |-> IF i - 1 = l0 THEN start ELSE -1]]
    /\ \E n \in 0 .. MaxVisLen : vis_list \in [1 .. n -> ByteSamples]
    /\ branches = <<>>
    /\ planes = <<>>
    /\ VisIdle
    /\ policy = Quake1
    /\ VersionIdle /\ NewIdle /\ NavIdle

NextVis ==
    \/ VisibleLeaves
    \/ NextAll \/ NextEnd \/ NextBitDone \/ NextBit
    \/ NextByteOverrun \/ NextZero \/ NextNonzero

SpecVis == InitVis /\ [][NextVis]_vars

----------------------------------------------------------------------------
(* The enum decoders, bsp/quake1.rs 99-107, 182-188, 276-283, 301-318,     *)
(* applied to records whose raw 32-bit fields are drawn from samples.      *)

WATER == -3
SLIME == -4
LAVA == -5
SKY == -6
I8Max == 127

(* enum LeafType *)
LeafTypes == {ORDINARY, WATER, SLIME, LAVA, SKY}

(* `x as i8` *)
as_i8(x) ==
    LET m == x % U8Modulus
    IN  IF m > I8Max THEN m - U8Modulus ELSE m

LeafTypeValue(v) == [tag |-> "LeafType", index |-> v]

(* Leaf::leaf_type on leaf l.  The assert lets every i8 of -6..-1 through, *)
(* and transmuting -2, which is no variant of LeafType, is undefined: the  *)
(* build may hand back the byte as it is or take it for any variant.       *)
leaf_type(l) ==
    LET lty == as_i8(At(leaves, l).leaf_type)
    IN  IF ~(lty >= SKY /\ lty <= ORDINARY) THEN {PanicNode}
        ELSE IF lty \in LeafTypes THEN {LeafTypeValue(lty)}
        ELSE {LeafTypeValue(v) : v \in LeafTypes \cup {lty}}

(* Leaf::leaf_type on a leaf Bsp::leaf has surfaced *)
LeafTypeCall ==
    /\ nav = NoNav
    /\ \E l \in 0 .. (Len(leaves) - 1) :
        /\ leaf(l).tag = "Leaf"
        /\ \E out \in leaf_type(l) : nav' = Called("leaf_type", l, out)
    /\ UNCHANGED <<policy, verVars, newVars, mapVars, node, position, tpc, steps, tret, visVars>>

(* Bsp::plane *)
PlaneCall ==
    /\ nav = NoNav
    /\ \E i \in 0 .. (Len(planes) - 1) :
        LET p == plane(i)
        IN  nav' = [op |-> "plane", arg |-> i, tag |-> p.tag, index |-> p.plane_type]
    /\ UNCHANGED <<policy, verVars, newVars, mapVars, node, position, tpc, steps, tret, visVars>>

(* Raw plane_type fields: the six categories, their neighbours, values     *)
(* that agree with a category in the low byte only, and the ends of i32.   *)
PlaneTypeSamples ==
    (-1 .. (MaxPlaneType + 1))
        \cup {U8Modulus - 1, U8Modulus, U8Modulus + MaxPlaneType, U8Modulus + MaxPlaneType + 1,
              -U8Modulus, MaxI32, MinI32}

(* Raw leaf_type fields: the categories, Invalid, their neighbours, values *)
(* that agree with one of those in the low byte only, and the ends of i32. *)
LeafTypeSamples ==
    ((SKY - 1) .. 0)
        \cup {U8Modulus + ORDINARY, U8Modulus + INVALID, U8Modulus + WATER,
              U8Modulus + SKY, U8Modulus + SKY - 1, I8Max, I8Max + 1,
              -U8Modulus + SKY, MaxI32, MinI32}

InitDecode ==
    /\ \E t \in PlaneTypeSamples :
        planes = << [normal |-> <<1, 0, 0>>, dist |-> 0, plane_type |-> t] >>
    /\ \E lt \in LeafTypeSamples :
        leaves = << [leaf_type |-> lt, vis_index |-> -1] >>
    /\ branches = <<>>
    /\ vis_list = <<>>
    /\ NavIdle
    /\ policy = Quake1
    /\ VersionIdle /\ NewIdle /\ VisIdle

NextDecode == LeafTypeCall \/ PlaneCall

SpecDecode == InitDecode /\ [][NextDecode]_vars

----------------------------------------------------------------------------
(* Two iterators, a traversal and navigator calls over one Bsp.  The first *)
(* iterator is the one of SpecVis; the second, peer, is held as a record   *)
(* and moved by the same code written as a function of the struct.         *)

(* Leaf::visible_leaves on leaf l: the struct it builds *)
visible_leaves(l) ==
    LET vis_index == At(leaves, l).vis_index
    IN  [my_index |-> vis_index, index |-> vis_index, all |-> (vis_index < 0),
         other_index |-> FirstOther, bit |-> <<>>, num_leaves |-> Len(leaves),
         ret |-> Ready, emitted |-> <<>>]

(* One iteration of the loop of VisibilityIterator::next on the struct it. *)
next_loop(it) ==
    IF it.all
    THEN LET out == leaf(it.other_index)
         IN  IF out.tag = "Panic" THEN [it EXCEPT !.ret = Panicked]
             ELSE IF out.tag = "Leaf"
                  THEN [it EXCEPT !.other_index = @ + 1,
                                  !.ret = SomeLeaf(out.index),
                                  !.emitted = Append(@, out.index)]
                  ELSE [it EXCEPT !.other_index = @ + 1, !.ret = Running]
    ELSE IF it.other_index > it.num_leaves THEN [it EXCEPT !.ret = NoneLeaf]
    ELSE IF it.bit # <<>>
    THEN IF it.bit[1] >= BitsPerByte
         THEN [it EXCEPT !.bit = <<>>, !.index = @ + 1, !.ret = Running]
         ELSE LET moved == [it EXCEPT !.other_index = @ + 1, !.bit = <<it.bit[1] + 1>>]
              IN  IF it.index >= Len(vis_list) THEN [moved EXCEPT !.ret = Panicked]
                  ELSE IF BitSet(At(vis_list, it.index), Mask(it.bit[1]))
                       THEN IF leaf(it.other_index).tag = "Leaf"
                            THEN [moved EXCEPT !.ret = SomeLeaf(it.other_index),
                                               !.emitted = Append(@, it.other_index)]
                            ELSE [moved EXCEPT !.ret = Panicked]
                       ELSE [moved EXCEPT !.ret = Running]
    ELSE IF it.index >= Len(vis_list) THEN [it EXCEPT !.ret = Panicked]
    ELSE IF At(vis_list, it.index) = 0
    THEN IF it.index + 1 >= Len(vis_list) THEN [it EXCEPT !.ret = Panicked]
         ELSE [it EXCEPT !.other_index = SkipTo(@, At(vis_list, it.index + 1)),
                         !.index = @ + ByteStep,
                         !.ret = Running]
    ELSE [it EXCEPT !.bit = <<FirstBit>>, !.ret = Running]

PeerVisibleLeaves ==
    /\ peer.ret.tag = "none"
    /\ \E l \in 0 .. (Len(leaves) - 1) :
        /\ leaf(l).tag = "Leaf"
        /\ peer' = visible_leaves(l)
    /\ UNCHANGED <<policy, verVars, newVars, mapVars, navVars,
                   my_index, index, all, other_index, bit, num_leaves, ret, emitted>>

(* The second iterator takes one iteration of its loop; the first one's    *)
(* fields are its own.                                                     *)
PeerNext_Mut ==
    /\ peer.ret.tag \notin {"none", "Panic"}
    /\ peer' = next_loop(peer)
    /\ other_index' = peer'.other_index
    /\ UNCHANGED <<policy, verVars, newVars, mapVars, navVars,
                   my_index, index, all, bit, num_leaves, ret, emitted>>
PeerNext ==
    /\ peer.ret.tag \notin {"none", "Panic"}
    /\ peer' = next_loop(peer)
    /\ UNCHANGED <<policy, verVars, newVars, mapVars, navVars,
                   my_index, index, all, other_index, bit, num_leaves, ret, emitted>>

(* The second iterator goes out of scope once next() has returned None. *)
PeerDrop ==
    /\ peer.ret.tag = "None"
    /\ peer' = NoPeer
    /\ UNCHANGED <<policy, verVars, newVars, mapVars, navVars,
                   my_index, index, all, other_index, bit, num_leaves, ret, emitted>>

(* The vislists tried: a byte whose first tested bit is set, then a skip   *)
(* of eight leaves; a byte with no tested bit set; and a skip of nothing   *)
(* before a byte with every bit set.                                       *)
SharedVisLists == {<<4, 0, 1>>, <<1>>, <<0, 0, 255>>}

(* Enough leaves for a byte to be gone through to its last bit. *)
MaxSharedLeaves == 8

(* Leaf 0 and leaf 2 are surfaced and hold the vis_index values decoded    *)
(* from, leaf 1 is Ordinary or Invalid; one branch whose back child is the *)
(* branch itself or a leaf.                                                *)
InitShared ==
    /\ \E v0 \in {-1, 0}, v2 \in {0, 1}, t1 \in TreeLeafTypes :
        leaves = [i \in 1 .. MaxSharedLeaves |->
                    [leaf_type |-> IF i = 2 THEN t1 ELSE ORDINARY,
                     vis_index |-> IF i = 1 THEN v0 ELSE IF i = 3 THEN v2 ELSE -1]]
    /\ \E b \in {0, -2} :
        branches = << [plane_id |-> 0, front_id |-> -1, back_id |-> b] >>
    /\ planes = TreePlanes
    /\ vis_list \in SharedVisLists
    /\ NavIdle
    /\ policy = Quake1
    /\ VersionIdle /\ NewIdle /\ VisIdle

NextShared ==
    \/ LeafCall \/ NodeCall \/ PlaneCall
    \/ TraverseStart \/ TraverseStep
    \/ VisibleLeaves
    \/ NextAll \/ NextEnd \/ NextBitDone \/ NextBit
    \/ NextByteOverrun \/ NextZero \/ NextNonzero
    \/ PeerVisibleLeaves \/ PeerNext \/ PeerDrop

SpecShared == InitShared /\ [][NextShared]_vars

----------------------------------------------------------------------------
(* Claims about Bsp::new and the lump accessors, under Spec *)

Header == buffer.len >= HeaderSize
EntryAt(i) == buffer.lumps[i]
EndOf(e) == checked_add(e.offset, e.len)

(* C1: after Bsp::new returned Ok no lump byte range escapes the buffer:   *)
(* every entry has 0 <= offset, 0 <= length and offset + length <= buffer  *)
(* length, and every lump accessor yields floor(length / S) records that   *)
(* lie wholly inside the buffer.                                           *)
C1_NoLumpEscapes ==
    result = Ok =>
        /\ \A i \in Lumps :
            /\ EntryAt(i).offset >= 0
            /\ EntryAt(i).len >= 0
            /\ EntryAt(i).offset + EntryAt(i).len <= buffer.len
        /\ slice # NoSlice =>
            /\ slice.tag = "Slice"
            /\ slice.count = EntryAt(LumpIndex(slice.lump)).len \div ElemSize[slice.lump]
            /\ slice.start + slice.count * ElemSize[slice.lump] <= buffer.len

(* The sum offset + length overflows i32 or is above the buffer length. *)
EscapesAbove(e) == EndOf(e) = NoneI32 \/ EndOf(e)[1] > buffer.len
(* ... or is negative. *)
EscapesEitherWay(e) == EscapesAbove(e) \/ EndOf(e)[1] < 0

FirstAbove == CHOOSE i \in Lumps :
    EscapesAbove(EntryAt(i)) /\ \A j \in 1..(i - 1) : ~EscapesAbove(EntryAt(j))
FirstEitherWay == CHOOSE i \in Lumps :
    EscapesEitherWay(EntryAt(i)) /\ \A j \in 1..(i - 1) : ~EscapesEitherWay(EntryAt(j))

(* C2, as claimed: on a buffer with a header and an accepted version, if   *)
(* some entry has offset + length overflowing or above the buffer length,  *)
(* Bsp::new returns EntryCorrupted naming the first such lump.             *)
C2_FirstAboveNamed ==
    ( /\ pc = "done"
      /\ Header
      /\ accepts_version(policy, buffer.version)
      /\ \E i \in Lumps : EscapesAbove(EntryAt(i)) )
    => result = EntryCorrupted(LumpNames[FirstAbove])

(* C2, amended: on a buffer with a header and an accepted version, if some *)
(* entry has offset + length overflowing, negative or above the buffer     *)
(* length, Bsp::new returns EntryCorrupted naming the first such lump.     *)
C2_FirstEscapingNamed ==
    ( /\ pc = "done"
      /\ Header
      /\ accepts_version(policy, buffer.version)
      /\ \E i \in Lumps : EscapesEitherWay(EntryAt(i)) )
    => result = EntryCorrupted(LumpNames[FirstEitherWay])

(* Two entries escape, the first of them by a negative end only. *)
C2_Witness ==
    /\ pc = "done"
    /\ result.tag = "EntryCorrupted"
    /\ \E i, j \in Lumps :
        /\ i < j
        /\ result.name = LumpNames[i]
        /\ ~EscapesAbove(EntryAt(i))
        /\ EscapesAbove(EntryAt(j))

(* C3: for every buffer shorter than the header Bsp::new returns           *)
(* HeaderCorrupted, and it has read no header field when it does.          *)
C3_ShortIsHeaderCorrupted ==
    (pc # "len" /\ buffer.len < HeaderSize) =>
        /\ pc = "done"
        /\ result = HeaderCorrupted
        /\ reads = {}

C3_Witness ==
    /\ pc = "done"
    /\ buffer.len = HeaderSize - 1
    /\ result = HeaderCorrupted

(* C4: on a buffer with a header whose version the policy rejects Bsp::new *)
(* returns VersionMismatch with that very version, whatever the lump       *)
(* entries hold and before any of them is read; and Bsp::new never returns *)
(* Ok with a version the policy rejects.                                   *)
C4_RejectedIsVersionMismatch ==
    /\ (pc = "done" /\ Header /\ ~accepts_version(policy, buffer.version)) =>
        /\ result = VersionMismatch(buffer.version)
        /\ reads = {"version"}
    /\ result = Ok => accepts_version(policy, buffer.version)

C4_Witness ==
    /\ pc = "done"
    /\ result = VersionMismatch(GoldsrcVersion)
    /\ policy = Quake1
    /\ \E i \in Lumps : EscapesEitherWay(EntryAt(i))

----------------------------------------------------------------------------
(* Claims about accepts_version, under SpecVersion *)

(* C5: 0x1D is accepted by Quake1 and rejected by Quake2; 0x1E is accepted *)
(* by Goldsrc and rejected by Quake1; 0x26 is accepted by Quake2; 0x27 is  *)
(* rejected by all three.                                                  *)
C5_Boundaries ==
    accepted # <<>> =>
        /\ (policy = Quake1 /\ version = 29) => accepted[1]
        /\ (policy = Quake2 /\ version = 29) => ~accepted[1]
        /\ (policy = Goldsrc /\ version = 30) => accepted[1]
        /\ (policy = Quake1 /\ version = 30) => ~accepted[1]
        /\ (policy = Quake2 /\ version = 38) => accepted[1]
        /\ version = 39 => ~accepted[1]

C5_Witness == accepted = <<TRUE>> /\ policy = Quake2 /\ version = 38

(* C6: Quake1 accepts exactly v <= 0x1D, Goldsrc exactly v = 0x1E, Quake2  *)
(* exactly 0x1E < v <= 0x26, so no version is accepted by two policies.    *)
C6_Partition ==
    accepted # <<>> =>
        /\ accepted[1] =
            CASE policy = Quake1 -> version <= 29
              [] policy = Goldsrc -> version = 30
              [] policy = Quake2 -> 30 < version /\ version <= 38
        /\ accepted[1] =>
            \A V \in Policies \ {policy} : ~accepts_version(V, version)

----------------------------------------------------------------------------
(* Claims about the tree navigator and Branch::traverse, under SpecTree *)

LeafIsInvalid(i) == i < Len(leaves) /\ At(leaves, i).leaf_type = -2

(* The leaf index a negative id stands for. *)
LeafIndexOf(id) == (-id - 1) % 65536

(* C7: the navigator never surfaces a leaf whose leaf_type is Invalid (-2): *)
(* Bsp::leaf, Bsp::node, Model::root, Branch::front and Branch::back return *)
(* None for an id that maps to such a leaf, and Branch::traverse never      *)
(* returns one.                                                             *)
C7_NoInvalidLeaf ==
    /\ nav.tag = "Leaf" => ~LeafIsInvalid(nav.index)
    /\ tret.tag = "Leaf" => ~LeafIsInvalid(tret.index)
    /\ (nav.op = "leaf" /\ LeafIsInvalid(nav.arg)) => nav.tag = "None"
    /\ ( /\ nav.op \in {"node", "root"}
         /\ nav.arg < 0 /\ nav.arg > MinI32
         /\ LeafIsInvalid(LeafIndexOf(nav.arg)) ) => nav.tag = "None"
    /\ ( /\ nav.op = "front"
         /\ At(branches, nav.arg).front_id < 0
         /\ LeafIsInvalid(LeafIndexOf(At(branches, nav.arg).front_id)) ) => nav.tag = "None"
    /\ ( /\ nav.op = "back"
         /\ At(branches, nav.arg).back_id < 0
         /\ LeafIsInvalid(LeafIndexOf(At(branches, nav.arg).back_id)) ) => nav.tag = "None"

(* A traversal that came to an Invalid leaf and returned None. *)
C7_Witness ==
    /\ tpc = "done"
    /\ tret.tag = "None"
    /\ \E id \in {At(branches, node).front_id, At(branches, node).back_id} :
        id < 0 /\ LeafIsInvalid(LeafIndexOf(id))

(* C8: Branch::traverse ends within branch_count iterations of its loop,   *)
(* whatever the node array holds, a cycle of child ids included.           *)
C8_BoundedDescent ==
    tpc # "idle" => steps <= Len(branches)

(* The child id Branch::traverse follows from branch b for the point pos:  *)
(* the front one when the point is on or in front of the plane.            *)
ChildToward(b, pos) ==
    LET p == At(planes, At(branches, b).plane_id)
    IN  IF p.normal[1] * pos[1] + p.normal[2] * pos[2] + p.normal[3] * pos[3] - p.dist >= 0
        THEN At(branches, b).front_id
        ELSE At(branches, b).back_id

(* An iteration of the loop of traverse at a branch whose plane exists. *)
AtBranch ==
    /\ tpc = "loop"
    /\ steps' = steps + 1
    /\ At(branches, node).plane_id < Len(planes)

(* C17: at every branch Branch::traverse follows the front child when      *)
(* dot(plane.normal, point) - plane.distance >= 0 and the back child       *)
(* otherwise; it goes on while the child is a Branch, returns the first    *)
(* Leaf it comes to, and returns None when the child is no such node.      *)
C17_TraverseFollowsPlane ==
    [][AtBranch =>
        LET c == ChildToward(node, position)
        IN  /\ (c >= 0 /\ c < Len(branches)) =>
                tpc' = "loop" /\ node' = c /\ tret' = tret
            /\ (c < 0 /\ -c - 1 < Len(leaves) /\ ~LeafIsInvalid(-c - 1)) =>
                tpc' = "done" /\ tret' = [tag |-> "Leaf", index |-> -c - 1]
            /\ (c < 0 /\ LeafIsInvalid(-c - 1)) =>
                tpc' = "done" /\ tret' = [tag |-> "None", index |-> 0]]_vars

(* A point on the plane itself was taken to the front leaf, the back child *)
(* being another node.                                                     *)
C17_Witness ==
    /\ tpc = "done"
    /\ position = <<0, 0, 0>>
    /\ tret.tag = "Leaf"
    /\ At(branches, node).plane_id < Len(planes)
    /\ tret.index = -At(branches, node).front_id - 1
    /\ At(branches, node).back_id # At(branches, node).front_id

(* What the signed id stands for: the branch id, or the leaf -id - 1, with *)
(* no such node for an Invalid leaf; an index past the end of its lump has *)
(* no node to resolve to, and the call aborts.                             *)
ResolvesTo(id, out) ==
    IF id >= 0
    THEN IF id < Len(branches)
         THEN out.tag = "Branch" /\ out.index = id
         ELSE out.tag = "Panic"
    ELSE IF id > -2147483647 - 1 /\ -id - 1 < Len(leaves)
         THEN IF LeafIsInvalid(-id - 1)
              THEN out.tag = "None"
              ELSE out.tag = "Leaf" /\ out.index = -id - 1
         ELSE out.tag = "Panic"

(* C20: every signed id resolves to the Branch at index id when id >= 0    *)
(* and to the Leaf at index -id - 1 when id < 0, or to no such node when   *)
(* that leaf is Invalid; so for the 16-bit child ids Branch::front and     *)
(* Branch::back hand over and for the 32-bit hull-0 id Model::root hands   *)
(* over, and never to the node of an index the id wraps around to.         *)
C20_IdResolution ==
    /\ nav.op \in {"node", "root"} => ResolvesTo(nav.arg, nav)
    /\ nav.op = "front" => ResolvesTo(At(branches, nav.arg).front_id, nav)
    /\ nav.op = "back" => ResolvesTo(At(branches, nav.arg).back_id, nav)

----------------------------------------------------------------------------
(* Claims about the visibility iterator, under SpecVis *)

(* The leaves among 1..n that Bsp::leaf surfaces, in ascending order. *)
RECURSIVE ValidUpTo(_)
ValidUpTo(n) ==
    IF n < 1 THEN <<>>
    ELSE IF n < Len(leaves) /\ At(leaves, n).leaf_type # -2
         THEN Append(ValidUpTo(n - 1), n)
         ELSE ValidUpTo(n - 1)

(* C9: in sentinel mode (vis_index < 0) the iterator yields the leaves of  *)
(* 1..leaf_count that are not Invalid, in ascending order, and then ends   *)
(* with None; it does not abort and resolves no index past leaf_count.     *)
C9_SentinelYieldsAll ==
    (all /\ ret.tag # "none") =>
        /\ ret.tag # "Panic"
        /\ other_index <= num_leaves + 1
        /\ emitted = ValidUpTo(other_index - 1)
        /\ other_index > num_leaves => ret.tag = "None"

(* The decoder is about to take a zero byte and its skip count. *)
AtZeroPair ==
    /\ Live /\ ~all
    /\ other_index <= num_leaves
    /\ bit = <<>>
    /\ index + 1 < Len(vis_list)
    /\ At(vis_list, index) = 0

(* The leaf's vis_index points at a zero byte and its skip count. *)
StartsWithZeroPair ==
    /\ ret.tag # "none" /\ ~all
    /\ my_index + 1 < Len(vis_list)
    /\ At(vis_list, my_index) = 0

(* C10: when the decoder is not mid-byte and vis_list[index] is 0 with     *)
(* skip count k behind it, the step adds exactly 8 * k to the leaf counter *)
(* and exactly 2 to index, leaves the bit cursor absent and emits nothing; *)
(* a leaf whose vis_index points at such a pair never has one of the       *)
(* leaves 1..8*k emitted.                                                  *)
C10_ZeroByteSkips ==
    /\ [][AtZeroPair =>
            /\ other_index' = other_index + 8 * At(vis_list, index + 1)
            /\ index' = index + 2
            /\ bit' = <<>>
            /\ emitted' = emitted]_vars
    /\ [](StartsWithZeroPair =>
            \A i \in 1 .. Len(emitted) : emitted[i] > 8 * At(vis_list, my_index + 1))

(* A leaf was emitted after a skip of eight leaves. *)
C10_Witness ==
    /\ StartsWithZeroPair
    /\ At(vis_list, my_index + 1) = 1
    /\ emitted # <<>>

(* The decoder is about to test a set bit of a byte inside the vislist. *)
AtSetBit ==
    /\ ret.tag \notin {"none", "Panic"} /\ ~all
    /\ other_index <= num_leaves
    /\ bit # <<>> /\ bit[1] < 8
    /\ index < Len(vis_list)
    /\ (At(vis_list, index) \div ((2 * Pow2(bit[1])) % 256)) % 2 = 1

(* C11: in run-length mode a leaf whose bit is set but which is Invalid is *)
(* skipped: the step emits nothing, does not abort, and leaves the decoder *)
(* going on with the next bit.                                             *)
C11_InvalidLeafSkipped ==
    [][(AtSetBit /\ LeafIsInvalid(other_index)) =>
            /\ ret'.tag = "running"
            /\ emitted' = emitted
            /\ other_index' = other_index + 1
            /\ bit' = <<bit[1] + 1>>]_vars

(* The next step of the decoder reads the vislist at or past its end: the  *)
(* byte under the cursor, or the skip count behind a zero byte.            *)
AtOverrun ==
    /\ ret.tag \notin {"none", "Panic"} /\ ~all
    /\ other_index <= num_leaves
    /\ \/ bit = <<>> /\ index >= Len(vis_list)
       \/ bit = <<>> /\ index + 1 = Len(vis_list) /\ At(vis_list, index) = 0
       \/ bit # <<>> /\ bit[1] < 8 /\ index >= Len(vis_list)

(* C12: a vislist cursor that reaches or passes the end of the vislist,    *)
(* the skip-count read at index + 1 included, ends the call with the       *)
(* decode error VisDecodeOverrun and not with an abort.                    *)
C12_OverrunIsDecodeError ==
    [][AtOverrun =>
            /\ ret'.tag # "Panic"
            /\ ret'.tag = "VisDecodeOverrun"]_vars

(* A decode that has been made and has not ended. *)
Decoding == ret.tag \in {"ready", "running", "Some"}

(* The leaves remaining, refined by the place within a byte: it starts at  *)
(* 3 * leaf_count + 1, and a decode whose every loop iteration lowers it   *)
(* while the leaf counter is within leaf_count ends within                 *)
(* 3 * leaf_count + 2 iterations.                                          *)
LeavesRemaining ==
    3 * (num_leaves + 1 - other_index)
        + (IF bit = <<>> THEN 1 ELSE IF bit[1] >= 8 THEN 2 ELSE 0)

(* C13: the decode is bounded by the leaf count: in sentinel and in        *)
(* run-length mode, whatever the vislist holds, every loop iteration of    *)
(* next() that does not return None lowers the leaves remaining, and no    *)
(* iteration aborts, so that a decode reaches None within a number of      *)
(* iterations bounded by leaf_count.                                       *)
C13_BoundedByLeafCount ==
    [][Decoding =>
            /\ ret'.tag # "Panic"
            /\ ret'.tag = "None" \/ LeavesRemaining' < LeavesRemaining]_vars

(* The decode began on a nonzero byte and has gone through it: the byte    *)
(* cursor is one past it and the bit cursor is cleared.  No step but the   *)
(* one that opens the next byte or pair moves the leaf counter from here.  *)
PastFirstNonzeroByte ==
    /\ ret.tag # "none" /\ ~all
    /\ my_index < Len(vis_list)
    /\ At(vis_list, my_index) # 0
    /\ index = my_index + 1
    /\ bit = <<>>

(* C18: a nonzero byte is consumed as 8 bits, each of which moves the leaf *)
(* counter by 1 whether it is set or not and emits the leaf at the counter *)
(* exactly when it is set, after which the byte cursor moves by 1 and the  *)
(* bit cursor is cleared: the leaf counter, 1 at the start, is 1 + 8 past  *)
(* the first nonzero byte, and a byte with all 8 bits set has emitted 8    *)
(* leaves by then.                                                         *)
C18_EightBitsPerByte ==
    PastFirstNonzeroByte =>
        /\ other_index = 1 + 8
        /\ At(vis_list, my_index) = 255 => Len(emitted) = 8

(* A run-length decode whose leaf counter is past the leaf count. *)
PastLeafCount ==
    /\ ret.tag # "none" /\ ~all
    /\ other_index > num_leaves

(* C19: run-length decoding stops once the leaf counter is past the leaf   *)
(* count: the call in which that comes about returns None, every later     *)
(* call returns None, and from then on no leaf is emitted and neither      *)
(* cursor moves.                                                           *)
C19_StopsPastLeafCount ==
    /\ []((PastLeafCount /\ ret.tag # "running") => ret.tag = "None")
    /\ [][PastLeafCount =>
            /\ ret'.tag = "None"
            /\ emitted' = emitted
            /\ index' = index
            /\ other_index' = other_index
            /\ bit' = bit]_vars

(* C21: in run-length mode every leaf index the decoder resolves through   *)
(* Bsp::leaf, the leaf counter of a set bit, is a valid index into the     *)
(* leaf records: 1 <= index < number of leaf records, whatever the vislist *)
(* holds and whatever the leaf count; a set bit tested while the leaf      *)
(* counter equals leaf_count does not index past the leaf array.           *)
C21_ResolvedLeafInRange ==
    [][(AtSetBit /\ other_index' = other_index + 1) =>
            /\ 1 <= other_index
            /\ other_index < Len(leaves)]_vars

----------------------------------------------------------------------------
(* Claims about the enum decoders, under SpecDecode *)

(* C14: decoding a plane fails for every raw 32-bit plane_type outside     *)
(* 0..5 and gives the category of that number for every raw value in 0..5; *)
(* no raw value outside 0..5 decodes to a category.                        *)
C14_PlaneTypeExact ==
    nav.op = "plane" =>
        LET raw == At(planes, nav.arg).plane_type
        IN  IF raw >= 0 /\ raw <= 5
            THEN nav.tag = "Plane" /\ nav.index = raw
            ELSE nav.tag = "Panic"

(* C15: for every leaf Bsp::leaf surfaces, Leaf::leaf_type either fails or *)
(* returns one of Ordinary (-1), Water (-3), Slime (-4), Lava (-5) and     *)
(* Sky (-6), the one the raw 32-bit leaf_type field holds; it returns no   *)
(* value outside these, whatever the raw field.                            *)
C15_LeafTypeKnown ==
    nav.op = "leaf_type" =>
        \/ nav.tag = "Panic"
        \/ /\ nav.tag = "LeafType"
           /\ nav.index \in {-1, -3, -4, -5, -6}
           /\ nav.index = At(leaves, nav.arg).leaf_type

----------------------------------------------------------------------------
(* Claims about steps interleaved over one Bsp, under SpecShared *)

IsPrefix(a, b) == Len(a) <= Len(b) /\ a = SubSeq(b, 1, Len(a))

Ended(r) == r.tag \in {"None", "Panic"}

(* Both iterators have been made, on leaves with the same vis_index. *)
SameDecode ==
    /\ ret.tag # "none"
    /\ peer.ret.tag # "none"
    /\ my_index = peer.my_index

(* C16: no step of an accessor, a navigator call, a traversal or a decode  *)
(* changes the buffer or the lumps read from it; a step of one of them     *)
(* leaves the state of the others alone; a fresh iterator starts at the    *)
(* leaf's own vis_index with leaf counter 1 and no bit cursor; so two      *)
(* decodes of the same vislist position, their steps interleaved in any    *)
(* way with each other and with a traversal, give the same leaves in the   *)
(* same order and end the same way.                                        *)
C16_SharedReadOnly ==
    /\ [][/\ buffer' = buffer
          /\ mapVars' = mapVars
          /\ navVars' = navVars \/ visVars' = visVars
          /\ peer' = peer
                \/ <<my_index, index, all, other_index, bit, num_leaves, ret, emitted>>'
                    = <<my_index, index, all, other_index, bit, num_leaves, ret, emitted>>]_vars
    /\ [](ret.tag = "ready" =>
            index = my_index /\ other_index = 1 /\ bit = <<>> /\ emitted = <<>>)
    /\ [](peer.ret.tag = "ready" =>
            /\ peer.index = peer.my_index /\ peer.other_index = 1
            /\ peer.bit = <<>> /\ peer.emitted = <<>>)
    /\ [](SameDecode =>
            /\ IsPrefix(emitted, peer.emitted) \/ IsPrefix(peer.emitted, emitted)
            /\ Ended(ret) => IsPrefix(peer.emitted, emitted)
            /\ Ended(peer.ret) => IsPrefix(emitted, peer.emitted)
            /\ (Ended(ret) /\ Ended(peer.ret)) => ret = peer.ret)

(* Both decodes of one vislist position came to None with the same leaf    *)
(* emitted, while a traversal was inside its loop.                         *)
C16_Witness ==
    /\ SameDecode
    /\ ret.tag = "None" /\ peer.ret.tag = "None"
    /\ emitted # <<>> /\ emitted = peer.emitted
    /\ tpc = "loop" /\ steps > 0

====
